---- MODULE Spec2Model ----
(***************************************************************************)
(* State-machine model of talk/p2p/base/relayport.cc: RelayPort, its       *)
(* RelayEntry list, the RelayConnection of each entry and the Allocate     *)
(* transactions pending on each connection.  All handlers run serially on  *)
(* the port's thread, so every handler is one atomic action.               *)
(***************************************************************************)
EXTENDS Integers, Sequences, FiniteSets, TLC

\* ------------------------------------------------------------------ bounds
MaxServers == 2
MaxDest == 2
MaxEntries == 2
\* a port with more servers than MaxSharedServers, or more TCP or SSLTCP
\* servers than MaxSharedTcp, is explored with its primary entry only
MaxSharedServers == 1
MaxSharedTcp == 0
\* the SetOption calls made on one port
MaxOptions == 2
\* the AllocateRequests whose retry schedules are explored
MaxRequests == 3

\* ------------------------------------------------------- program constants
kKeepAliveDelay == 600000
kRetryTimeout == 50000
CookieOffset == 24
CookieLen == 4
SOCKET_ERROR == -1

PROTO_UDP == "UDP"
PROTO_TCP == "TCP"
PROTO_SSLTCP == "SSLTCP"
ProtocolType == {PROTO_UDP, PROTO_TCP, PROTO_SSLTCP}
ProxyType == {"PROXY_NONE", "PROXY_HTTPS", "PROXY_UNKNOWN"}

\* errno-style values of RelayPort::error_
NoError == "0"
EWOULDBLOCK == "EWOULDBLOCK"
SockErrs == {"ENOTCONN"}
\* what a socket answers when asked to set an option: NoError if it accepts,
\* and else the error it reports
OptOutcomes == {NoError, "EINVAL"} \cup SockErrs
\* the (option, value) pair of the k-th SetOption call; the port never looks
\* into an option, so it is enough that successive calls differ
OptionValue(k) == [opt |-> "OPT_DONTFRAGMENT", value |-> k % 2]

\* ----------------------------------------------------------- input domains
NilAddr == 0
Dests == 0..MaxDest
MappedAddrs == {"M1", "M2"}
Payloads == {<<7>>}
\* time between the first transmission of an Allocate and its response; the
\* transaction is gone after the last retransmission interval
Rtts == {250}

VARIABLES
    server_addr,    \* RelayPort::server_addr_
    external_addr,  \* RelayPort::external_addr_
    entries,        \* RelayPort::entries_ with each entry's connection
    ready,          \* RelayPort::ready_
    error,          \* RelayPort::error_
    candidates,     \* addresses handed to Port::AddAddress
    prepared,       \* PrepareAddress has been called
    readyCount,     \* number of SignalAddressReady emissions (saturating)
    onConnectRan,   \* some RelayEntry::OnConnect has run
    options,        \* RelayPort::options_
    requests        \* AllocateRequests with the delays each has returned

vars == <<server_addr, external_addr, entries, ready, error, candidates,
          prepared, readyCount, onConnectRan, options, requests>>

\* ------------------------------------------------------------------ values
IsNil(addr) == addr = NilAddr

\* opts are the options the connection's socket has been asked to set
NoConn == [sock |-> 0, ra |-> 0, state |-> "none", fresh |-> 0, ka |-> 0,
           opts |-> <<>>]

NewEntry(addr) ==
    [ext_addr |-> addr, server_index |-> 0, connected |-> FALSE,
     locked |-> FALSE, conn |-> NoConn,
     attempts |-> 0, stale |-> {}, msgs |-> <<>>]

IsTcp(proto) == proto = PROTO_TCP \/ proto = PROTO_SSLTCP

\* ServerAddress that hands out the last server again once the index is past
\* the end of the list
ServerAddressClamped(servers, index) ==
    IF index < Len(servers) THEN index + 1 ELSE Len(servers)

\* RelayPort::ServerAddress: 0 stands for the NULL pointer, i + 1 for
\* &server_addr_[i]
ServerAddress(servers, index) ==
    IF index < Len(servers) THEN index + 1 ELSE 0

\* ------------------------------------------------------- handler plumbing
\* A handler is a function from the port's state to the port's state and the
\* handler's outputs: the signals it emits (sigs), the packets it hands to
\* RelayPort::OnReadPacket (delivered), what it writes to sockets (wrote),
\* the Allocate requests it hands to request managers (allocs) and its
\* return value (ret).  St is the state a handler starts from.
St ==
    [server_addr |-> server_addr, external_addr |-> external_addr,
     entries |-> entries, ready |-> ready, error |-> error,
     candidates |-> candidates, readyCount |-> readyCount,
     onConnectRan |-> onConnectRan, options |-> options,
     sigs |-> <<>>, delivered |-> <<>>, wrote |-> <<>>, allocs |-> <<>>,
     ret |-> 0]

\* AddExternalAddress without its search for the pair
AddExternalAddressAlways(st, addr) ==
    [st EXCEPT !.external_addr = Append(@, addr)]

\* RelayPort::AddExternalAddress
AddExternalAddress(st, addr) ==
    IF \E k \in 1..Len(st.external_addr) :
           /\ st.external_addr[k].address = addr.address
           /\ st.external_addr[k].proto = addr.proto
    THEN st
    ELSE [st EXCEPT !.external_addr = Append(@, addr)]

\* SetReady that publishes no candidate
SetReadyUnpublished(st) ==
    IF ~st.ready
    THEN [st EXCEPT
            !.ready = TRUE,
            !.readyCount = IF @ < 2 THEN @ + 1 ELSE @,
            !.sigs = Append(@, [sig |-> "AddressReady", ra |-> 0])]
    ELSE st

\* SetReady without its test of ready_
SetReadyAlways(st) ==
    [st EXCEPT
        !.candidates = @ \o [k \in 1..Len(st.external_addr) |->
                                st.external_addr[k].address],
        !.ready = TRUE,
        !.readyCount = IF @ < 2 THEN @ + 1 ELSE @,
        !.sigs = Append(@, [sig |-> "AddressReady", ra |-> 0])]

\* RelayPort::SetReady
SetReady(st) ==
    IF ~st.ready
    THEN [st EXCEPT
            !.candidates = @ \o [k \in 1..Len(st.external_addr) |->
                                    st.external_addr[k].address],
            !.ready = TRUE,
            !.readyCount = IF @ < 2 THEN @ + 1 ELSE @,
            !.sigs = Append(@, [sig |-> "AddressReady", ra |-> 0])]
    ELSE st

\* the zero-delay Post goes to the thread's message queue, which is served
\* before the delayed queue that PostDelayed fills
Post(msgs, m) ==
    LET nd == SelectSeq(msgs, LAMBDA x : ~x.delayed)
        dl == SelectSeq(msgs, LAMBDA x : x.delayed)
    IN  IF m.delayed THEN msgs \o <<m>> ELSE nd \o <<m>> \o dl

\* RelayConnection::SendAllocateRequest on a connection record: one more
\* AllocateRequest is handed to the request manager, to be sent after delay
SendAllocateRequest(conn, delay) ==
    IF delay = 0 THEN [conn EXCEPT !.fresh = @ + 1]
                 ELSE [conn EXCEPT !.ka = @ + 1]

\* current_connection_->SendAllocateRequest(this, delay) of entry e; the
\* call is recorded in allocs
EnqueueAllocate(st, e, delay) ==
    [st EXCEPT
        !.entries[e].conn = SendAllocateRequest(@, delay),
        !.allocs = Append(@, [e |-> e, sock |-> st.entries[e].conn.sock,
                              delay |-> delay])]

\* RelayConnection::SetSocketOption: the socket is asked to set the option
ConnSetSocketOption(conn, ov) == [conn EXCEPT !.opts = Append(@, ov)]

\* Connect that leaves a new socket with its default options
ApplyNoOptions(conn, opts) == conn

\* the loop of RelayEntry::Connect over the port's options
RECURSIVE ApplyOptions(_, _)
ApplyOptions(conn, opts) ==
    IF opts = <<>> THEN conn
    ELSE ApplyOptions(ConnSetSocketOption(conn, Head(opts)), Tail(opts))

\* Connect without its test of connected_
ConnectAgain(st, e, ok) ==
    LET ent == st.entries[e]
        ra == ServerAddress(st.server_addr, ent.server_index)
    IN  IF ra = 0 THEN st
        ELSE
          LET proto == st.server_addr[ra].proto
              att == ent.attempts + 1
              disposed == IF ent.conn # NoConn
                          THEN ent.stale \cup {ent.conn} ELSE ent.stale
              cleared == [ent EXCEPT !.stale = disposed, !.conn = NoConn,
                                     !.attempts = att]
              made == ApplyOptions(
                        [sock |-> att, ra |-> ra,
                         state |-> IF IsTcp(proto) THEN "connecting"
                                                   ELSE "open",
                         fresh |-> 0, ka |-> 0, opts |-> <<>>],
                        st.options)
          IN  IF ~ok
              THEN [st EXCEPT !.entries[e] =
                      [cleared EXCEPT !.msgs =
                          Post(@, [att |-> att, delayed |-> FALSE])]]
              ELSE IF IsTcp(proto)
              THEN [st EXCEPT !.entries[e] =
                      [cleared EXCEPT !.conn = made,
                                      !.msgs = Post(@, [att |-> att,
                                                        delayed |-> TRUE])]]
              ELSE EnqueueAllocate(
                       [st EXCEPT !.entries[e] = [cleared EXCEPT !.conn = made]],
                       e, 0)

\* RelayEntry::Connect; ok is the outcome of the socket factory
Connect(st, e, ok) ==
    LET ent == st.entries[e]
        ra == ServerAddress(st.server_addr, ent.server_index)
    IN  IF ent.connected THEN st
        ELSE IF ra = 0 THEN st
        ELSE
          LET proto == st.server_addr[ra].proto
              att == ent.attempts + 1
              disposed == IF ent.conn # NoConn
                          THEN ent.stale \cup {ent.conn} ELSE ent.stale
              cleared == [ent EXCEPT !.stale = disposed, !.conn = NoConn,
                                     !.attempts = att]
              made == ApplyOptions(
                        [sock |-> att, ra |-> ra,
                         state |-> IF IsTcp(proto) THEN "connecting"
                                                   ELSE "open",
                         fresh |-> 0, ka |-> 0, opts |-> <<>>],
                        st.options)
          IN  IF ~ok
              THEN [st EXCEPT !.entries[e] =
                      [cleared EXCEPT !.msgs =
                          Post(@, [att |-> att, delayed |-> FALSE])]]
              ELSE IF IsTcp(proto)
              THEN [st EXCEPT !.entries[e] =
                      [cleared EXCEPT !.conn = made,
                                      !.msgs = Post(@, [att |-> att,
                                                        delayed |-> TRUE])]]
              ELSE EnqueueAllocate(
                       [st EXCEPT !.entries[e] = [cleared EXCEPT !.conn = made]],
                       e, 0)

\* HandleConnectFailure that starts again at the first server after the last
HandleConnectFailureWrapping(st, e, socket, ok) ==
    LET ent == st.entries[e]
    IN  IF socket = 0 \/ (ent.conn # NoConn /\ socket = ent.conn.sock)
        THEN LET signalled ==
                   IF ent.conn # NoConn
                   THEN [st EXCEPT !.sigs =
                           Append(@, [sig |-> "ConnectFailure",
                                      ra |-> ent.conn.ra])]
                   ELSE st
                 advanced == [signalled EXCEPT
                                !.entries[e].server_index =
                                    IF @ + 1 >= Len(st.server_addr)
                                    THEN 0 ELSE @ + 1]
             IN  Connect(advanced, e, ok)
        ELSE st

\* HandleConnectFailure that tries the same server again
HandleConnectFailureSameServer(st, e, socket, ok) ==
    LET ent == st.entries[e]
    IN  IF socket = 0 \/ (ent.conn # NoConn /\ socket = ent.conn.sock)
        THEN LET signalled ==
                   IF ent.conn # NoConn
                   THEN [st EXCEPT !.sigs =
                           Append(@, [sig |-> "ConnectFailure",
                                      ra |-> ent.conn.ra])]
                   ELSE st
             IN  Connect(signalled, e, ok)
        ELSE st

\* RelayEntry::HandleConnectFailure; socket 0 is the NULL socket
HandleConnectFailure(st, e, socket, ok) ==
    LET ent == st.entries[e]
    IN  IF socket = 0 \/ (ent.conn # NoConn /\ socket = ent.conn.sock)
        THEN LET signalled ==
                   IF ent.conn # NoConn
                   THEN [st EXCEPT !.sigs =
                           Append(@, [sig |-> "ConnectFailure",
                                      ra |-> ent.conn.ra])]
                   ELSE st
                 advanced == [signalled EXCEPT
                                !.entries[e].server_index = @ + 1]
             IN  Connect(advanced, e, ok)
        ELSE st

\* OnConnect that readies the port without marking the entry connected
OnConnectUnmarked(st, e, mapped_addr) ==
    SetReady(AddExternalAddress([st EXCEPT !.onConnectRan = TRUE],
                                [address |-> mapped_addr,
                                 proto |-> PROTO_UDP]))

\* RelayEntry::OnConnect
OnConnect(st, e, mapped_addr) ==
    LET c == [st EXCEPT !.entries[e].connected = TRUE,
                        !.onConnectRan = TRUE]
    IN  SetReady(AddExternalAddress(c, [address |-> mapped_addr,
                                        proto |-> PROTO_UDP]))

\* a request as StunRequest's constructor leaves it, with no delay returned
NewRequest == [count_ |-> 0, timeout_ |-> FALSE, delays |-> <<>>]

\* talk_base::_max
Max(a, b) == IF a > b THEN a ELSE b

\* GetNextDelay without the floor of two on the doubling factor
GetNextDelayNoFloor(req) ==
    LET delay == 100 * (2 ^ req.count_)
        count == req.count_ + 1
    IN  [count_ |-> count,
         timeout_ |-> req.timeout_ \/ count = 5,
         delays |-> Append(req.delays, delay)]

\* AllocateRequest::GetNextDelay; delays collects the values returned
GetNextDelay(req) ==
    LET delay == 100 * Max(2 ^ req.count_, 2)
        count == req.count_ + 1
    IN  [count_ |-> count,
         timeout_ |-> req.timeout_ \/ count = 5,
         delays |-> Append(req.delays, delay)]

\* RelayEntry::ScheduleKeepAlive
ScheduleKeepAlive(st, e) ==
    IF st.entries[e].conn # NoConn
    THEN EnqueueAllocate(st, e, kKeepAliveDelay)
    ELSE st

\* ---------------------------------------------------------------- packets
STUN_ALLOCATE_RESPONSE == "ALLOCATE_RESPONSE"
STUN_ALLOCATE_ERROR_RESPONSE == "ALLOCATE_ERROR_RESPONSE"
STUN_SEND_RESPONSE == "SEND_RESPONSE"
STUN_DATA_INDICATION == "DATA_INDICATION"
STUN_OTHER == "OTHER"

\* A packet from the server: its length, whether the four bytes at offset 24
\* equal TURN_MAGIC_COOKIE_VALUE, whether RelayMessage::Read accepts it, and
\* what the parsed message holds.  txn names the pending AllocateRequest whose
\* transaction id the message carries ("no": none); mapped is MAPPED-ADDRESS
\* (absent, wrong family, or an address); options is OPTIONS (-1: absent);
\* src is SOURCE-ADDRESS2 (-1: absent, -2: wrong family); data is DATA
\* (<<>>: absent) or, for an unframed packet, the packet's bytes.
Pkt(size, cookie, parses, type, txn, mapped, rtt, opts, src, data) ==
    [size |-> size, cookie |-> cookie, parses |-> parses, type |-> type,
     txn |-> txn, mapped |-> mapped, rtt |-> rtt, options |-> opts,
     src |-> src, data |-> data]

\* packet lengths on either side of the length test of HasMagicCookie
ShortSize == CookieOffset + CookieLen - 1
LongSize == CookieOffset + CookieLen

RawPackets ==
    {Pkt(ShortSize, ck, FALSE, STUN_OTHER, "no", "none", 0, -1, -1, d) :
        ck \in BOOLEAN, d \in Payloads}
    \cup {Pkt(LongSize, FALSE, FALSE, STUN_OTHER, "no", "none", 0, -1, -1, d) :
        d \in Payloads}

StunPackets ==
    {Pkt(LongSize, TRUE, FALSE, STUN_OTHER, "no", "none", 0, -1, -1, <<>>)}
    \cup {Pkt(LongSize, TRUE, TRUE, STUN_ALLOCATE_RESPONSE, t, m, 0, -1, -1, <<>>) :
            t \in {"fresh", "ka"},
            m \in {"none", "badfamily"} \cup MappedAddrs}
    \cup {Pkt(LongSize, TRUE, TRUE, STUN_ALLOCATE_ERROR_RESPONSE, t, "none", r,
              -1, -1, <<>>) :
            t \in {"fresh", "ka"}, r \in Rtts}
    \cup {Pkt(LongSize, TRUE, TRUE, STUN_ALLOCATE_RESPONSE, "no", m, 0, -1, -1,
              <<>>) : m \in MappedAddrs}
    \cup {Pkt(LongSize, TRUE, TRUE, STUN_SEND_RESPONSE, t, "none", 0, o, -1,
              <<>>) : t \in {"no", "fresh"}, o \in -1..2}
    \cup {Pkt(LongSize, TRUE, TRUE, STUN_DATA_INDICATION, "no", "none", 0, -1,
              a, d) : a \in {-1, -2, 1}, d \in {<<>>} \cup Payloads}
    \cup {Pkt(LongSize, TRUE, TRUE, STUN_OTHER, "no", "none", 0, -1, -1, <<>>)}

Packets == RawPackets \cup StunPackets

\* RelayPort::HasMagicCookie
HasMagicCookie(pkt) ==
    IF pkt.size < CookieOffset + CookieLen THEN FALSE ELSE pkt.cookie

\* StunRequestManager::CheckResponse: the message carries the id of an
\* outstanding transaction of this connection and is the response or the
\* error response to its request
CheckResponse(conn, pkt) ==
    /\ pkt.type \in {STUN_ALLOCATE_RESPONSE, STUN_ALLOCATE_ERROR_RESPONSE}
    /\ \/ pkt.txn = "fresh" /\ conn.fresh > 0
       \/ pkt.txn = "ka" /\ conn.ka > 0

\* the request manager deletes the transaction that was answered or timed out
DeleteRequest(conn, txn) ==
    IF txn = "fresh" THEN [conn EXCEPT !.fresh = @ - 1]
                     ELSE [conn EXCEPT !.ka = @ - 1]

\* RelayPort::OnReadPacket: the payload goes to the ICE connection for
\* remote_addr or to Port::OnReadPacket
PortOnReadPacket(st, data, size, remote_addr, proto) ==
    [st EXCEPT !.delivered = Append(@, [data |-> data, size |-> size,
                                         remote |-> remote_addr,
                                         proto |-> proto])]

\* OnResponse that schedules the keep-alive only after a usable address
OnResponseKeepAliveIfMapped(st, e, pkt) ==
    IF pkt.mapped = "none" THEN st
    ELSE IF pkt.mapped = "badfamily" THEN st
    ELSE ScheduleKeepAlive(OnConnect(st, e, pkt.mapped), e)

\* AllocateRequest::OnResponse
OnResponse(st, e, pkt) ==
    LET c == IF pkt.mapped = "none" THEN st
             ELSE IF pkt.mapped = "badfamily" THEN st
             ELSE OnConnect(st, e, pkt.mapped)
    IN  ScheduleKeepAlive(c, e)

\* AllocateRequest::start_time_ is taken when the request is constructed, so
\* the time since then is the delay it was scheduled with plus the time the
\* response took
TimeSinceStart(pkt) ==
    (IF pkt.txn = "ka" THEN kKeepAliveDelay ELSE 0) + pkt.rtt

\* OnErrorResponse with the test of the retry window turned round
OnErrorResponseLate(st, e, pkt) ==
    IF TimeSinceStart(pkt) > kRetryTimeout
    THEN ScheduleKeepAlive(st, e)
    ELSE st

\* AllocateRequest::OnErrorResponse
OnErrorResponse(st, e, pkt) ==
    IF TimeSinceStart(pkt) <= kRetryTimeout
    THEN ScheduleKeepAlive(st, e)
    ELSE st

\* the unframed branch without its test of locked_
OnUnframedPacketAlways(st, e, pkt) ==
    PortOnReadPacket(st, pkt.data, pkt.size, st.entries[e].ext_addr,
                     PROTO_UDP)

\* RelayEntry::OnReadPacket, a packet without the magic cookie: it is
\* payload from the address the connection is locked to, or it is dropped
OnUnframedPacket(st, e, pkt) ==
    LET ent == st.entries[e]
    IN  IF ent.locked
        THEN PortOnReadPacket(st, pkt.data, pkt.size, ent.ext_addr, PROTO_UDP)
        ELSE st

\* the STUN_SEND_RESPONSE branch locking on any OPTIONS attribute, whatever
\* its bit 0
OnSendResponseAnyOptions(st, e, pkt) ==
    IF pkt.options # -1
    THEN [st EXCEPT !.entries[e].locked = TRUE]
    ELSE st

\* RelayEntry::OnReadPacket, a STUN_SEND_RESPONSE: bit 0 of OPTIONS locks
\* the connection
OnSendResponse(st, e, pkt) ==
    IF pkt.options # -1 /\ pkt.options % 2 = 1
    THEN [st EXCEPT !.entries[e].locked = TRUE]
    ELSE st

\* RelayEntry::OnReadPacket
OnReadPacketBody(st, e, socket, pkt) ==
    LET ent == st.entries[e]
    IN  IF ent.conn = NoConn \/ socket # ent.conn.sock THEN st
        ELSE IF ~HasMagicCookie(pkt) THEN OnUnframedPacket(st, e, pkt)
        ELSE IF ~pkt.parses THEN st
        ELSE IF CheckResponse(ent.conn, pkt)
        THEN LET called == IF pkt.type = STUN_ALLOCATE_RESPONSE
                           THEN OnResponse(st, e, pkt)
                           ELSE OnErrorResponse(st, e, pkt)
             IN  [called EXCEPT !.entries[e].conn = DeleteRequest(@, pkt.txn)]
        ELSE IF pkt.type = STUN_SEND_RESPONSE THEN OnSendResponse(st, e, pkt)
        ELSE IF pkt.type # STUN_DATA_INDICATION THEN st
        ELSE IF pkt.src = -1 THEN st
        ELSE IF pkt.src = -2 THEN st
        ELSE IF pkt.data = <<>> THEN st
        ELSE PortOnReadPacket(st, pkt.data, Len(pkt.data), pkt.src, PROTO_UDP)

\* ------------------------------------------------------------------ sends
\* RelayConnection::Send through RelayEntry::SendPacket: what is handed to
\* the socket is recorded in wrote; the socket takes all cb bytes or fails
SendPacket(st, e, what, cb, sendOk) ==
    LET conn == st.entries[e].conn
    IN  IF conn # NoConn
        THEN [st EXCEPT
                !.wrote = Append(@, [what EXCEPT !.sock = conn.sock,
                                                 !.e = e]),
                !.ret = IF sendOk /\ conn.state = "open"
                        THEN cb ELSE -1]
        ELSE [st EXCEPT !.ret = 0]

\* a request that asks for the lock whatever its destination
SendRequestAlwaysOptions(ent, addr, data) ==
    <<[t |-> "MAGIC_COOKIE", v |-> <<>>],
      [t |-> "USERNAME", v |-> <<>>],
      [t |-> "DESTINATION_ADDRESS", v |-> <<addr>>],
      [t |-> "OPTIONS", v |-> <<1>>],
      [t |-> "DATA", v |-> data]>>

\* the attributes RelayEntry::SendTo adds to its STUN_SEND_REQUEST, in order
SendRequest(ent, addr, data) ==
    <<[t |-> "MAGIC_COOKIE", v |-> <<>>],
      [t |-> "USERNAME", v |-> <<>>],
      [t |-> "DESTINATION_ADDRESS", v |-> <<addr>>]>>
    \o (IF ent.ext_addr = addr
        THEN <<[t |-> "OPTIONS", v |-> <<1>>]>> ELSE <<>>)
    \o <<[t |-> "DATA", v |-> data]>>

\* SendTo that sends unframed on a locked entry whatever the destination
EntrySendToLockedRaw(st, e, data, addr, sendOk) ==
    LET ent == st.entries[e]
        request == SendRequest(ent, addr, data)
    IN  IF ent.locked
        THEN SendPacket(st, e,
                 [kind |-> "raw", sock |-> 0, e |-> 0, dest |-> addr,
                  attrs |-> <<>>, data |-> data],
                 Len(data), sendOk)
        ELSE SendPacket(st, e,
                 [kind |-> "STUN_SEND_REQUEST", sock |-> 0, e |-> 0,
                  dest |-> addr, attrs |-> request, data |-> data],
                 Len(data) + Len(request), sendOk)

\* RelayEntry::SendTo; the encoded request is longer than its payload by
\* what its header and attributes take, counted here as one per attribute
EntrySendTo(st, e, data, addr, sendOk) ==
    LET ent == st.entries[e]
        request == SendRequest(ent, addr, data)
    IN  IF ent.locked /\ ent.ext_addr = addr
        THEN SendPacket(st, e,
                 [kind |-> "raw", sock |-> 0, e |-> 0, dest |-> addr,
                  attrs |-> <<>>, data |-> data],
                 Len(data), sendOk)
        ELSE SendPacket(st, e,
                 [kind |-> "STUN_SEND_REQUEST", sock |-> 0, e |-> 0,
                  dest |-> addr, attrs |-> request, data |-> data],
                 Len(data) + Len(request), sendOk)

\* the loop of RelayPort::SendTo without its breaks: the last entry that
\* takes or has the destination
FindEntryLast(ents, addr, payload) ==
    LET hits == {i \in 1..Len(ents) :
                    \/ IsNil(ents[i].ext_addr) /\ payload
                    \/ ents[i].ext_addr = addr}
    IN  IF hits = {} THEN 0
        ELSE CHOOSE i \in hits : \A j \in hits : i >= j

\* the first entry the loop of RelayPort::SendTo stops at, 0 if none
FindEntry(ents, addr, payload) ==
    LET hits == {i \in 1..Len(ents) :
                    \/ IsNil(ents[i].ext_addr) /\ payload
                    \/ ents[i].ext_addr = addr}
    IN  IF hits = {} THEN 0
        ELSE CHOOSE i \in hits : \A j \in hits : i <= j

\* the loop of RelayPort::SendTo without its set_address
AdoptNothing(st, found, addr, payload) == st

\* RelayPort::SendTo, the entry the loop stopped at takes the destination
\* if it had none and this is payload
Adopt(st, found, addr, payload) ==
    IF found # 0 /\ IsNil(st.entries[found].ext_addr) /\ payload
    THEN [st EXCEPT !.entries[found].ext_addr = addr]
    ELSE st

\* the tail of RelayPort::SendTo falling back to the primary entry without
\* testing that the primary entry is connected
DispatchUnchecked(st, entry, data, addr, sendOk, err) ==
    LET fallback == entry = 0 \/ ~st.entries[entry].connected
        used == IF fallback THEN 1 ELSE entry
        sent == EntrySendTo(st, used, data, addr, sendOk)
    IN  IF sent.ret <= 0
        THEN [sent EXCEPT
                !.error = IF sent.entries[used].conn # NoConn
                          THEN err ELSE NoError,
                !.ret = SOCKET_ERROR]
        ELSE [sent EXCEPT !.ret = Len(data)]

\* RelayPort::SendTo, from the choice of the sending entry on; entry 0 is
\* the NULL entry
Dispatch(st, entry, data, addr, sendOk, err) ==
    LET fallback == entry = 0 \/ ~st.entries[entry].connected
        used == IF fallback THEN 1 ELSE entry
    IN  IF fallback /\ ~st.entries[1].connected
        THEN [st EXCEPT !.error = EWOULDBLOCK, !.ret = SOCKET_ERROR]
        ELSE LET sent == EntrySendTo(st, used, data, addr, sendOk)
             IN  IF sent.ret <= 0
                 THEN [sent EXCEPT
                         !.error = IF sent.entries[used].conn # NoConn
                                   THEN err ELSE NoError,
                         !.ret = SOCKET_ERROR]
                 ELSE [sent EXCEPT !.ret = Len(data)]

\* RelayEntry::SetSocketOption
EntrySetSocketOption(ent, ov) ==
    IF ent.conn # NoConn
    THEN [ent EXCEPT !.conn = ConnSetSocketOption(@, ov)]
    ELSE ent

\* the loop of RelayPort::SetOption from entry i on; outcome[i] is NoError if
\* the socket of entry i accepts the option and else the error it reports,
\* which RelayEntry::GetError then returns
RECURSIVE SetOptionLoop(_, _, _, _)
SetOptionLoop(st, i, ov, outcome) ==
    IF i > Len(st.entries) THEN st
    ELSE LET applied == [st EXCEPT !.entries[i] = EntrySetSocketOption(@, ov)]
             failed == st.entries[i].conn # NoConn /\ outcome[i] # NoError
         IN  SetOptionLoop(IF failed
                           THEN [applied EXCEPT !.ret = -1,
                                                !.error = outcome[i]]
                           ELSE applied,
                           i + 1, ov, outcome)

\* RelayPort::SetOption
PortSetOption(st, ov, outcome) ==
    [SetOptionLoop([st EXCEPT !.ret = 0], 1, ov, outcome)
        EXCEPT !.options = Append(@, ov)]

\* RelayPort::SendTo
PortSendTo(st, data, addr, payload, ok, sendOk, err) ==
    LET found == FindEntry(st.entries, addr, payload)
        adopted == Adopt(st, found, addr, payload)
        made == [NewEntry(addr) EXCEPT
                    !.server_index = adopted.entries[1].server_index]
        grown ==
            IF found = 0 /\ payload
            THEN Connect([adopted EXCEPT !.entries = Append(@, made)],
                         Len(adopted.entries) + 1, ok)
            ELSE adopted
        entry == IF found = 0 /\ payload THEN Len(grown.entries) ELSE found
    IN  Dispatch(grown, entry, data, addr, sendOk, err)

RECURSIVE StaleCount(_)
StaleCount(ents) ==
    IF ents = <<>> THEN 0
    ELSE Cardinality(Head(ents).stale) + StaleCount(Tail(ents))

\* Thread::Dispose posts the deletion to the thread's own queue, so the
\* thread deletes a disposed connection before it takes any event other than
\* the callbacks the connection's socket and requests had already raised
Disposed == StaleCount(entries) = 0

\* the handler's result becomes the next state
Commit(st) ==
    /\ server_addr' = st.server_addr
    /\ external_addr' = st.external_addr
    /\ entries' = st.entries
    /\ ready' = st.ready
    /\ error' = st.error
    /\ candidates' = st.candidates
    /\ readyCount' = st.readyCount
    /\ onConnectRan' = st.onConnectRan
    /\ options' = st.options
    /\ UNCHANGED requests

\* ---------------------------------------------------------------- actions
\* RelayPort::AddServerAddress, called while the port is being configured
AddServerAddress(proto, ptype) ==
    /\ ~prepared
    /\ Len(entries) = 1
    /\ Len(server_addr) < MaxServers
    /\ LET addr == [proto |-> proto]
           st == IF proto = PROTO_SSLTCP
                    /\ (ptype = "PROXY_HTTPS" \/ ptype = "PROXY_UNKNOWN")
                 THEN [St EXCEPT !.server_addr = <<addr>> \o @]
                 ELSE [St EXCEPT !.server_addr = Append(@, addr)]
       IN  Commit(st)
    /\ UNCHANGED prepared

\* RelayPort::PrepareAddress
PrepareAddressBody(st, ok) ==
    [Connect(st, 1, ok) EXCEPT !.ready = FALSE]

PrepareAddress(ok) ==
    /\ ~prepared
    /\ Len(entries) = 1
    /\ prepared' = TRUE
    /\ Commit(PrepareAddressBody(St, ok))

\* the bound on the ports that are explored with several entries
Shareable ==
    /\ Len(entries) < MaxEntries
    /\ Len(server_addr) <= MaxSharedServers
    /\ Cardinality({k \in 1..Len(server_addr) :
                        IsTcp(server_addr[k].proto)}) <= MaxSharedTcp

\* RelayPort::SendTo
SendTo(data, addr, payload, ok, sendOk, err) ==
    /\ Disposed
    /\ FindEntry(entries, addr, payload) = 0 /\ payload => Shareable
    /\ Commit(PortSendTo(St, data, addr, payload, ok, sendOk, err))
    /\ UNCHANGED prepared

\* RelayPort::SetOption
SetOption(outcome) ==
    /\ Disposed
    /\ Len(options) < MaxOptions
    /\ Commit(PortSetOption(St, OptionValue(Len(options) + 1), outcome))
    /\ UNCHANGED prepared

\* RelayEntry::OnMessage
OnMessageBody(st, e, ok) ==
    LET conn == st.entries[e].conn
    IN  IF conn # NoConn
        THEN HandleConnectFailure(
                 [st EXCEPT !.sigs = Append(@, [sig |-> "SoftTimeout",
                                                ra |-> conn.ra])],
                 e, conn.sock, ok)
        ELSE HandleConnectFailure(st, e, 0, ok)

\* the thread delivers the kMessageConnectTimeout at the head of its queue
OnMessage(e, ok) ==
    /\ Disposed
    /\ entries[e].msgs # <<>>
    /\ Commit(OnMessageBody([St EXCEPT !.entries[e].msgs = Tail(@)], e, ok))
    /\ UNCHANGED prepared

\* the connections of entry e whose sockets can still raise callbacks: the
\* current one and those handed to Thread::Dispose and not yet deleted
Conns(e) ==
    (IF entries[e].conn # NoConn THEN {entries[e].conn} ELSE {})
    \cup entries[e].stale

\* a callback of the current connection waits for the deletion of disposed
\* ones; a callback of a disposed connection is one it had already raised
MayRaise(e, c) == c \in Conns(e) /\ (c \in entries[e].stale \/ Disposed)

\* the connection of socket s replaced by c, wherever entry e holds it
WithConn(st, e, s, c) ==
    IF st.entries[e].conn.sock = s
    THEN [st EXCEPT !.entries[e].conn = c]
    ELSE [st EXCEPT !.entries[e].stale =
            {IF x.sock = s THEN c ELSE x : x \in @}]

\* RelayEntry::OnSocketConnect
OnSocketConnectBody(st, e, socket) ==
    IF st.entries[e].conn # NoConn
    THEN EnqueueAllocate(st, e, 0)
    ELSE st

\* SignalConnect, raised once by a TCP socket that connects
OnSocketConnect(e, c) ==
    /\ MayRaise(e, c)
    /\ c.state = "connecting"
    /\ Commit(OnSocketConnectBody(
                  WithConn(St, e, c.sock, [c EXCEPT !.state = "open"]),
                  e, c.sock))
    /\ UNCHANGED prepared

\* RelayEntry::OnSocketClose
OnSocketCloseBody(st, e, socket, ok) ==
    HandleConnectFailure(st, e, socket, ok)

\* SignalClose, raised once by a TCP socket that fails to connect or is
\* closed
OnSocketClose(e, c, ok) ==
    /\ MayRaise(e, c)
    /\ IsTcp(server_addr[c.ra].proto)
    /\ c.state \in {"connecting", "open"}
    /\ Commit(OnSocketCloseBody(
                  WithConn(St, e, c.sock, [c EXCEPT !.state = "closed"]),
                  e, c.sock, ok))
    /\ UNCHANGED prepared

\* SignalReadPacket, raised by an open socket for a packet from the server
OnReadPacket(e, c, pkt) ==
    /\ MayRaise(e, c)
    /\ c.state = "open"
    /\ Commit(OnReadPacketBody(St, e, c.sock, pkt))
    /\ UNCHANGED prepared

\* AllocateRequest::OnTimeout
OnTimeoutBody(st, e, socket, ok) ==
    HandleConnectFailure(st, e, socket, ok)

\* a request pending on connection c times out; the request manager deletes
\* the request
OnTimeout(e, c, txn, ok) ==
    /\ MayRaise(e, c)
    /\ IF txn = "fresh" THEN c.fresh > 0 ELSE c.ka > 0
    /\ Commit(OnTimeoutBody(
                  WithConn(St, e, c.sock, DeleteRequest(c, txn)),
                  e, c.sock, ok))
    /\ UNCHANGED prepared

\* the thread deletes a connection handed to Thread::Dispose
Dispose(e, c) ==
    /\ c \in entries[e].stale
    /\ Commit([St EXCEPT !.entries[e].stale = @ \ {c}])
    /\ UNCHANGED prepared

Init ==
    /\ server_addr = <<>>
    /\ external_addr = <<>>
    /\ entries = <<NewEntry(NilAddr)>>
    /\ ready = FALSE
    /\ error = NoError
    /\ candidates = <<>>
    /\ prepared = FALSE
    /\ readyCount = 0
    /\ onConnectRan = FALSE
    /\ options = <<>>
    /\ requests = [i \in 1..MaxRequests |-> NewRequest]

Next ==
    \/ \E proto \in ProtocolType, ptype \in ProxyType :
          AddServerAddress(proto, ptype)
    \/ \E ok \in BOOLEAN : PrepareAddress(ok)
    \/ \E data \in Payloads, addr \in Dests, payload \in BOOLEAN,
          ok \in BOOLEAN, sendOk \in BOOLEAN, err \in SockErrs :
          SendTo(data, addr, payload, ok, sendOk, err)
    \/ \E outcome \in [1..Len(entries) -> OptOutcomes] : SetOption(outcome)
    \/ \E e \in 1..Len(entries), ok \in BOOLEAN : OnMessage(e, ok)
    \/ \E e \in 1..Len(entries) : \E c \in Conns(e) : OnSocketConnect(e, c)
    \/ \E e \in 1..Len(entries), ok \in BOOLEAN : \E c \in Conns(e) :
          OnSocketClose(e, c, ok)
    \/ \E e \in 1..Len(entries), pkt \in Packets : \E c \in Conns(e) :
          OnReadPacket(e, c, pkt)
    \/ \E e \in 1..Len(entries), txn \in {"fresh", "ka"}, ok \in BOOLEAN :
          \E c \in Conns(e) : OnTimeout(e, c, txn, ok)
    \/ \E e \in 1..Len(entries) : \E c \in entries[e].stale : Dispose(e, c)

Spec == Init /\ [][Next]_vars

\* StunRequest::OnMessage: a request that has not timed out is sent again
\* and asks for the delay to its next send; one that has timed out is removed
Resend(i) ==
    /\ ~requests[i].timeout_
    /\ requests' = [requests EXCEPT ![i] = GetNextDelay(@)]
    /\ UNCHANGED <<server_addr, external_addr, entries, ready, error,
                   candidates, prepared, readyCount, onConnectRan, options>>

RetryNext == \E i \in 1..MaxRequests : Resend(i)

\* the retry schedules of MaxRequests requests, interleaved
RetrySpec == Init /\ [][RetryNext]_vars

\* ------------------------------------------------------------- properties
\* The properties about a handler's outputs apply the handler to the current
\* state, for every input, in every reachable state.

\* C1: once PrepareAddress has been called, SignalAddressReady is emitted at
\* most once in the life of the port, and never before some entry's
\* OnConnect has run
C1_AddressReadyOnce ==
    prepared => /\ readyCount <= 1
                /\ readyCount >= 1 => onConnectRan

\* OnConnect has run for two different mapped addresses and the signal was
\* emitted once
C1_Witness ==
    prepared /\ readyCount = 1 /\ onConnectRan /\ Len(external_addr) = 2

\* C2 as stated: on a port whose PrepareAddress has been called, ready_
\* turns true only in a step that connects the primary entry; a secondary
\* entry that connects while the primary entry is unconnected leaves ready_
\* false
C2_ReadyOnlyByPrimary ==
    [][(prepared /\ ~ready /\ ready') =>
          (~entries[1].connected /\ entries'[1].connected)]_vars

\* C2 amended: ready_ turns true only in a step that connects some entry,
\* the primary entry or a secondary one
C2_ReadyByFirstConnect ==
    [][(~ready /\ ready') =>
          \E e \in 1..Len(entries) :
              ~entries[e].connected /\ entries'[e].connected]_vars

\* after PrepareAddress the port is ready through a secondary entry while its
\* primary entry is unconnected
C2_Witness ==
    /\ prepared
    /\ ready
    /\ Len(entries) >= 2
    /\ ~entries[1].connected
    /\ entries[2].connected

\* C3: for every entry locked implies connected and connected implies that
\* the entry has a current connection, whatever the order of the server's
\* messages
C3_LockedConnectedCurrent ==
    \A e \in 1..Len(entries) :
        /\ entries[e].locked => entries[e].connected
        /\ entries[e].connected => entries[e].conn # NoConn

\* C4: a locked entry has a non-nil ext_addr
C4_LockedHasAddress ==
    \A e \in 1..Len(entries) :
        entries[e].locked => ~IsNil(entries[e].ext_addr)

\* C5: a packet without the magic cookie that arrives on an entry's current
\* socket is dropped with no change of state if the entry is unlocked, and is
\* handed to the port unchanged, as coming from the entry's ext_addr over
\* UDP, if the entry is locked
C5_UnframedPacket ==
    \A e \in 1..Len(entries), pkt \in Packets :
        (/\ entries[e].conn # NoConn
         /\ (pkt.size < CookieOffset + CookieLen \/ ~pkt.cookie)) =>
            LET r == OnReadPacketBody(St, e, entries[e].conn.sock, pkt)
            IN  IF entries[e].locked
                THEN r = [St EXCEPT !.delivered =
                            <<[data |-> pkt.data, size |-> pkt.size,
                               remote |-> entries[e].ext_addr,
                               proto |-> PROTO_UDP]>>]
                ELSE r = St

\* a locked entry with an open socket, on which an unframed packet is
\* delivered
C5_Witness ==
    \E e \in 1..Len(entries), pkt \in RawPackets :
        /\ entries[e].locked
        /\ entries[e].conn.state = "open"
        /\ OnReadPacketBody(St, e, entries[e].conn.sock, pkt).delivered # <<>>

\* C6: when SendTo(data, addr, payload = true) returns, with a byte count or
\* with SOCKET_ERROR, some entry of the port has ext_addr = addr
C6_PayloadSendOwnsDest ==
    \A data \in Payloads, addr \in Dests, ok \in BOOLEAN, sendOk \in BOOLEAN,
       err \in SockErrs :
        LET r == PortSendTo(St, data, addr, TRUE, ok, sendOk, err)
        IN  /\ r.ret = Len(data) \/ r.ret = SOCKET_ERROR
            /\ \E i \in 1..Len(r.entries) : r.entries[i].ext_addr = addr

\* the primary entry has adopted one destination and a second entry was
\* appended for another
C6_Witness ==
    /\ Len(entries) = 2
    /\ ~IsNil(entries[1].ext_addr)
    /\ ~IsNil(entries[2].ext_addr)
    /\ entries[1].ext_addr # entries[2].ext_addr

\* C7: a STUN_SEND_REQUEST an entry writes for a destination carries
\* OPTIONS = 1 exactly if the destination is that entry's ext_addr; a send
\* that falls back to the primary entry for the destination of an unconnected
\* secondary entry carries no OPTIONS
C7_OptionsIffOwnDest ==
    LET Options(w) == SelectSeq(w.attrs, LAMBDA a : a.t = "OPTIONS")
        Asks(w) == Options(w) = <<[t |-> "OPTIONS", v |-> <<1>>]>>
        Silent(w) == Options(w) = <<>>
    IN  /\ \A e \in 1..Len(entries), data \in Payloads, addr \in Dests,
              sendOk \in BOOLEAN :
            LET w == EntrySendTo(St, e, data, addr, sendOk).wrote
            IN  \A k \in 1..Len(w) :
                    w[k].kind = "STUN_SEND_REQUEST" =>
                        IF addr = entries[e].ext_addr
                        THEN Asks(w[k]) ELSE Silent(w[k])
        /\ \A data \in Payloads, addr \in Dests, payload \in BOOLEAN,
              ok \in BOOLEAN, sendOk \in BOOLEAN, err \in SockErrs :
            LET r == PortSendTo(St, data, addr, payload, ok, sendOk, err)
            IN  \A k \in 1..Len(r.wrote) :
                    r.wrote[k].kind = "STUN_SEND_REQUEST" =>
                        /\ IF addr = r.entries[r.wrote[k].e].ext_addr
                           THEN Asks(r.wrote[k]) ELSE Silent(r.wrote[k])
                        /\ (\E i \in 2..Len(r.entries) :
                               /\ r.entries[i].ext_addr = addr
                               /\ ~r.entries[i].connected)
                           => r.wrote[k].e = 1 /\ Silent(r.wrote[k])

\* a send for the destination of an unconnected secondary entry goes out
\* through the connected primary entry as a request without OPTIONS, and a
\* send for the primary entry's own destination as a request with OPTIONS
C7_Witness ==
    /\ Len(entries) = 2
    /\ entries[1].connected /\ ~entries[1].locked
    /\ ~entries[2].connected
    /\ \E data \in Payloads :
          LET other == PortSendTo(St, data, entries[2].ext_addr, TRUE, TRUE,
                                  TRUE, "ENOTCONN").wrote
              own == PortSendTo(St, data, entries[1].ext_addr, TRUE, TRUE,
                                TRUE, "ENOTCONN").wrote
          IN  /\ Len(other) = 1 /\ Len(other[1].attrs) = 4
              /\ Len(own) = 1 /\ Len(own[1].attrs) = 5

\* C8: a STUN_SEND_RESPONSE read on an entry's current socket sets locked_
\* if it carries OPTIONS with bit 0 set and changes nothing otherwise, and no
\* step turns locked_ from true to false
C8_LockOnlyByOptionsBit ==
    /\ [](\A e \in 1..Len(entries), pkt \in Packets :
            (/\ entries[e].conn # NoConn
             /\ pkt.size >= CookieOffset + CookieLen /\ pkt.cookie
             /\ pkt.parses
             /\ pkt.type = STUN_SEND_RESPONSE) =>
                LET r == OnReadPacketBody(St, e, entries[e].conn.sock, pkt)
                IN  IF pkt.options \in {1, 3}
                    THEN r = [St EXCEPT !.entries[e].locked = TRUE]
                    ELSE r = St)
    /\ [][\A e \in 1..Len(entries) :
              entries[e].locked => entries'[e].locked]_vars

\* an entry that is locked and has since moved on to another server
C8_Witness ==
    \E e \in 1..Len(entries) :
        /\ entries[e].locked
        /\ entries[e].server_index >= 1
        /\ entries[e].attempts >= 2

\* C9: SendTo writes through the entry selected for the destination if that
\* entry is connected and through the primary entry otherwise; if neither is
\* connected it writes nothing, sets error_ to EWOULDBLOCK and returns
\* SOCKET_ERROR
C9_SendRouting ==
    \A data \in Payloads, addr \in Dests, payload \in BOOLEAN, ok \in BOOLEAN,
       sendOk \in BOOLEAN, err \in SockErrs :
        LET r == PortSendTo(St, data, addr, payload, ok, sendOk, err)
            owners == {i \in 1..Len(r.entries) : r.entries[i].ext_addr = addr}
            selected == IF owners = {} THEN 0
                        ELSE CHOOSE i \in owners : \A j \in owners : i <= j
            via == IF selected # 0 /\ r.entries[selected].connected
                   THEN selected
                   ELSE IF r.entries[1].connected THEN 1 ELSE 0
        IN  IF via = 0
            THEN r.wrote = <<>> /\ r.error = EWOULDBLOCK
                 /\ r.ret = SOCKET_ERROR
            ELSE Len(r.wrote) = 1 /\ r.wrote[1].e = via
                 /\ r.wrote[1].sock = r.entries[via].conn.sock

\* a send has failed with EWOULDBLOCK, and the primary entry has since
\* connected while a secondary entry with a destination has not
C9_Witness ==
    /\ error = EWOULDBLOCK
    /\ Len(entries) = 2
    /\ entries[1].connected
    /\ ~entries[2].connected
    /\ ~IsNil(entries[2].ext_addr)

\* an entry whose Connect has run, that is unconnected and whose index is
\* past the end of the server list
Exhausted(e) ==
    /\ e > 1 \/ prepared
    /\ ~entries[e].connected
    /\ entries[e].server_index >= Len(server_addr)

\* C10 as stated: an exhausted entry never becomes connected and never
\* creates another socket
C10_ExhaustedTerminal ==
    [][\A e \in 1..Len(entries) :
          Exhausted(e) => /\ ~entries'[e].connected
                          /\ entries'[e].attempts = entries[e].attempts]_vars

\* C10 amended: an exhausted entry never creates another socket and its index
\* stays past the end of the server list; it keeps its last connection, on
\* which it can still become connected
C10_ExhaustedNoNewSocket ==
    [][\A e \in 1..Len(entries) :
          Exhausted(e) =>
              /\ entries'[e].attempts = entries[e].attempts
              /\ entries'[e].conn.sock = entries[e].conn.sock
              /\ entries'[e].server_index >= Len(server_addr')]_vars

\* an exhausted entry that still holds an open connection with an Allocate
\* request pending
C10_Witness ==
    \E e \in 1..Len(entries) :
        /\ Exhausted(e)
        /\ entries[e].conn.state = "open"
        /\ entries[e].conn.fresh > 0

\* C11 as stated: an entry makes at most one socket-creation attempt per
\* server index, it makes the attempt at the next index only in a step that
\* advances its index from the one before, and it makes an attempt at every
\* index within the server list that its index moves to
C11_EveryIndexAttempted ==
    [][\A e \in 1..Len(entries) :
          LET old == entries[e]
              new == entries'[e]
          IN  /\ new.attempts \in {old.attempts, old.attempts + 1}
              /\ (new.attempts # old.attempts /\ old.attempts > 0) =>
                     new.server_index = old.server_index + 1
              /\ (new.server_index # old.server_index
                  /\ new.server_index < Len(server_addr)) =>
                     new.attempts = old.attempts + 1]_vars

\* C11 amended: at most one attempt per index, the next index only after a
\* failure at the one before; an unconnected entry makes an attempt at every
\* index within the list that its index moves to, and a connected entry
\* makes none, whatever its index moves to
C11_OneAttemptPerIndex ==
    [][\A e \in 1..Len(entries) :
          LET old == entries[e]
              new == entries'[e]
          IN  /\ new.attempts \in {old.attempts, old.attempts + 1}
              /\ (new.attempts # old.attempts /\ old.attempts > 0) =>
                     new.server_index = old.server_index + 1
              /\ new.server_index # old.server_index =>
                     new.attempts =
                         IF ~old.connected
                            /\ new.server_index < Len(server_addr)
                         THEN old.attempts + 1 ELSE old.attempts]_vars

\* a connected entry whose index has moved to a server within the list that
\* it has made no attempt at
C11_Witness ==
    \E e \in 1..Len(entries) :
        /\ entries[e].connected
        /\ entries[e].attempts >= 1
        /\ entries[e].server_index < Len(server_addr)
        /\ entries[e].attempts <= entries[e].server_index

\* C12: a callback raised by the socket, or by a request, of a connection
\* that the entry has replaced changes nothing: no entry state, no signal,
\* nothing sent or scheduled on the current connection
C12_StragglersDiscarded ==
    \A e \in 1..Len(entries) : \A c \in entries[e].stale :
        /\ c.state = "open" =>
              \A pkt \in Packets : OnReadPacketBody(St, e, c.sock, pkt) = St
        /\ c.state \in {"connecting", "open"} =>
              \A ok \in BOOLEAN : OnSocketCloseBody(St, e, c.sock, ok) = St
        /\ c.fresh + c.ka > 0 =>
              \A ok \in BOOLEAN : OnTimeoutBody(St, e, c.sock, ok) = St
        /\ c.state = "connecting" => OnSocketConnectBody(St, e, c.sock) = St

\* C13: a soft-connect-timeout message delivered to an entry that is
\* connected, or whose current connection is a later attempt than the one
\* that posted the message, emits no signal and leaves server_index and the
\* current connection unchanged
C13_SoftTimeoutOnlyForItsAttempt ==
    \A e \in 1..Len(entries), ok \in BOOLEAN :
        LET ent == entries[e]
        IN  (/\ ent.msgs # <<>>
             /\ Head(ent.msgs).delayed
             /\ \/ ent.connected
                \/ ent.conn # NoConn /\ ent.conn.sock > Head(ent.msgs).att) =>
                LET r == OnMessageBody([St EXCEPT !.entries[e].msgs = Tail(@)],
                                       e, ok)
                IN  /\ r.sigs = <<>>
                    /\ r.entries[e].server_index = ent.server_index
                    /\ r.entries[e].conn = ent.conn

\* C14 as stated: socket creation failure, TCP close, soft-connect timeout,
\* Allocate timeout and an Allocate error response within the retry window
\* each advance the entry's server_index by one
C14_AllFailuresAdvance ==
    \A e \in 1..Len(entries), ok \in BOOLEAN :
        LET ent == entries[e]
            next == ent.server_index + 1
        IN  /\ ent.msgs # <<>> =>
                  OnMessageBody([St EXCEPT !.entries[e].msgs = Tail(@)],
                                e, ok).entries[e].server_index = next
            /\ ent.conn # NoConn =>
                  /\ OnSocketCloseBody(St, e, ent.conn.sock, ok)
                         .entries[e].server_index = next
                  /\ OnTimeoutBody(St, e, ent.conn.sock, ok)
                         .entries[e].server_index = next
            /\ \A pkt \in Packets :
                  (/\ ent.conn # NoConn
                   /\ HasMagicCookie(pkt) /\ pkt.parses
                   /\ pkt.type = STUN_ALLOCATE_ERROR_RESPONSE
                   /\ CheckResponse(ent.conn, pkt)
                   /\ TimeSinceStart(pkt) <= kRetryTimeout) =>
                      OnReadPacketBody(St, e, ent.conn.sock, pkt)
                          .entries[e].server_index = next

\* C14 amended: socket creation failure, TCP close, soft-connect timeout and
\* Allocate timeout advance server_index by one and call Connect for the
\* next server; an Allocate error response within the retry window leaves
\* server_index and the connection in place and schedules one more Allocate
\* on it after the keep-alive delay
C14_FailuresAdvanceErrorsRetry ==
    \A e \in 1..Len(entries), ok \in BOOLEAN :
        LET ent == entries[e]
            Failover(s, r) ==
                /\ r.entries[e].server_index = ent.server_index + 1
                /\ r.entries =
                      Connect([s EXCEPT !.entries[e].server_index = @ + 1],
                              e, ok).entries
            popped == [St EXCEPT !.entries[e].msgs = Tail(@)]
        IN  /\ ent.msgs # <<>> =>
                  Failover(popped, OnMessageBody(popped, e, ok))
            /\ ent.conn # NoConn =>
                  /\ Failover(St, OnSocketCloseBody(St, e, ent.conn.sock, ok))
                  /\ Failover(St, OnTimeoutBody(St, e, ent.conn.sock, ok))
            /\ \A pkt \in Packets :
                  (/\ ent.conn # NoConn
                   /\ HasMagicCookie(pkt) /\ pkt.parses
                   /\ pkt.type = STUN_ALLOCATE_ERROR_RESPONSE
                   /\ CheckResponse(ent.conn, pkt)
                   /\ TimeSinceStart(pkt) <= kRetryTimeout) =>
                      OnReadPacketBody(St, e, ent.conn.sock, pkt) =
                          [St EXCEPT
                              !.entries[e].conn =
                                  [DeleteRequest(ent.conn, pkt.txn)
                                      EXCEPT !.ka = @ + 1],
                              !.allocs = <<[e |-> e, sock |-> ent.conn.sock,
                                            delay |-> kKeepAliveDelay]>>]

\* an unconnected entry with another server left, whose pending Allocate can
\* be answered by an error response or time out, and a message to deliver
C14_Witness ==
    \E e \in 1..Len(entries) :
        /\ ~entries[e].connected
        /\ entries[e].server_index + 1 < Len(server_addr)
        /\ entries[e].conn.fresh > 0
        /\ entries[e].msgs # <<>>

\* C15: an entry's server_index never decreases; HandleConnectFailure adds
\* exactly one to it when its socket is NULL or the current connection's and
\* nothing otherwise; SendTo, PrepareAddress, socket-connect and read-packet
\* leave every existing entry's index alone; and an entry made by SendTo
\* starts at the primary entry's index
C15_IndexMonotone ==
    /\ [](\A e \in 1..Len(entries), ok \in BOOLEAN :
            LET ent == entries[e]
                index(r) == r.entries[e].server_index
            IN  /\ \A socket \in 0..ent.attempts :
                      /\ index(HandleConnectFailure(St, e, socket, ok)) =
                            IF socket = 0 \/ socket = ent.conn.sock
                            THEN ent.server_index + 1
                            ELSE ent.server_index
                      /\ index(OnSocketConnectBody(St, e, socket)) =
                            ent.server_index
                      /\ \A pkt \in Packets :
                            index(OnReadPacketBody(St, e, socket, pkt)) =
                                ent.server_index
                /\ index(PrepareAddressBody(St, ok)) = ent.server_index
                /\ \A data \in Payloads, addr \in Dests, payload \in BOOLEAN,
                      sendOk \in BOOLEAN, err \in SockErrs :
                       index(PortSendTo(St, data, addr, payload, ok, sendOk,
                                        err)) = ent.server_index)
    /\ [][/\ Len(entries') >= Len(entries)
          /\ \A e \in 1..Len(entries') :
                IF e <= Len(entries)
                THEN entries'[e].server_index \in
                        {entries[e].server_index, entries[e].server_index + 1}
                ELSE entries'[e].server_index = entries[1].server_index]_vars

\* the primary entry has failed over once, and a secondary entry made after
\* that started at the primary's index, past its only server
C15_Witness ==
    /\ Len(entries) = 2
    /\ entries[1].attempts = 1
    /\ entries[1].server_index = 1
    /\ entries[2].attempts = 0
    /\ entries[2].server_index = 1

\* C16: the delays one AllocateRequest has returned are the first count_
\* values of 200, 200, 400, 800, 1600 ms, and the request is marked timed
\* out exactly when the fifth has been returned
C16_RetrySchedule ==
    \A i \in 1..MaxRequests :
        LET req == requests[i]
        IN  /\ req.count_ = Len(req.delays)
            /\ req.count_ <= 5
            /\ req.delays = SubSeq(<<200, 200, 400, 800, 1600>>, 1, req.count_)
            /\ \A n \in 0..(req.count_ - 1) :
                  req.delays[n + 1] = 100 * Max(2, 2 ^ n)
            /\ req.timeout_ <=> req.count_ = 5

\* one request has returned its fifth delay while another has returned four
C16_Witness ==
    \E i, j \in 1..MaxRequests :
        /\ requests[i].timeout_ /\ Len(requests[i].delays) = 5
        /\ ~requests[j].timeout_ /\ Len(requests[j].delays) = 4

\* C17: the socket of every connection of an entry has been asked to set
\* every option in the port's options list, in the list's order: a current
\* connection all of them, a replaced one those recorded until it was
\* replaced; and SetOption appends its option to the list whether or not an
\* existing socket refused it
C17_OptionsApplied ==
    /\ \A e \in 1..Len(entries) :
          /\ entries[e].conn # NoConn => entries[e].conn.opts = options
          /\ \A c \in entries[e].stale :
                /\ Len(c.opts) <= Len(options)
                /\ c.opts = SubSeq(options, 1, Len(c.opts))
          /\ \A ok \in BOOLEAN :
                LET made == Connect(St, e, ok).entries[e]
                IN  made.conn # NoConn => made.conn.opts = options
    /\ \A outcome \in [1..Len(entries) -> OptOutcomes] :
          PortSetOption(St, OptionValue(Len(options) + 1), outcome).options =
              Append(options, OptionValue(Len(options) + 1))

\* two options are recorded, a socket that existed has refused one, and an
\* entry has since replaced its connection, the old one not yet deleted
C17_Witness ==
    /\ Len(options) = 2
    /\ error = "EINVAL"
    /\ \E e \in 1..Len(entries) :
          entries[e].conn # NoConn /\ entries[e].stale # {}

\* C18: when SetOption fails on the sockets of several entries, error_ is the
\* error of the first failing entry in the order of entries_, and SetOption
\* returns a negative result
C18_FirstOptionErrorSurfaced ==
    \A outcome \in [1..Len(entries) -> OptOutcomes] :
        LET r == PortSetOption(St, OptionValue(Len(options) + 1), outcome)
            failing == {i \in 1..Len(entries) :
                           entries[i].conn # NoConn /\ outcome[i] # NoError}
            first == CHOOSE i \in failing : \A j \in failing : i <= j
        IN  failing # {} => r.ret < 0 /\ r.error = outcome[first]

\* C19: external_addr holds no two elements with equal (address, proto);
\* AddExternalAddress leaves the sequence unchanged for a pair that is
\* present and appends a pair that is not
C19_ExternalAddrDistinct ==
    /\ \A i, j \in 1..Len(external_addr) :
          (/\ external_addr[i].address = external_addr[j].address
           /\ external_addr[i].proto = external_addr[j].proto) => i = j
    /\ \A address \in MappedAddrs, proto \in ProtocolType :
          LET pa == [address |-> address, proto |-> proto]
              r == AddExternalAddress(St, pa)
          IN  IF \E k \in 1..Len(external_addr) : external_addr[k] = pa
              THEN r = St
              ELSE r = [St EXCEPT !.external_addr = Append(@, pa)]

\* two entries have connected, and the second OnConnect brought the mapped
\* address the first had brought
C19_Witness ==
    /\ Len(entries) = 2
    /\ entries[1].connected
    /\ entries[2].connected
    /\ Len(external_addr) = 1

\* C20 as stated: while the port is ready, every element of external_addr
\* has been published as a local candidate
C20_AllExternalPublished ==
    ready => \A k \in 1..Len(external_addr) :
                \E j \in 1..Len(candidates) :
                    candidates[j] = external_addr[k].address

\* C20 amended: the step in which the port turns ready publishes every
\* element external_addr then has, in order, and no other step publishes
\* anything: an address recorded while the port is ready is not published
C20_PublishedWhenTurningReady ==
    [][IF ~ready /\ ready'
       THEN candidates' = candidates \o
                [k \in 1..Len(external_addr') |-> external_addr'[k].address]
       ELSE candidates' = candidates]_vars

\* the port is ready and has since recorded a second mapped address
C20_Witness ==
    /\ ready
    /\ Len(candidates) = 1
    /\ Len(external_addr) = 2

\* C21: what SendTo hands to a socket is the caller's bytes unframed exactly
\* when the sending entry is locked and the destination is its ext_addr;
\* otherwise, also when a destination falls back onto a locked primary
\* entry, it is a STUN Send request with one DESTINATION-ADDRESS, the
\* requested destination, and the caller's bytes as DATA
C21_RawOnlyWhenLockedToDest ==
    \A data \in Payloads, addr \in Dests, payload \in BOOLEAN, ok \in BOOLEAN,
       sendOk \in BOOLEAN, err \in SockErrs :
        LET r == PortSendTo(St, data, addr, payload, ok, sendOk, err)
        IN  \A k \in 1..Len(r.wrote) :
                LET w == r.wrote[k]
                    ent == r.entries[w.e]
                    Attr(t) == SelectSeq(w.attrs, LAMBDA a : a.t = t)
                IN  IF ent.locked /\ ent.ext_addr = addr
                    THEN w.kind = "raw" /\ w.data = data /\ w.attrs = <<>>
                    ELSE /\ w.kind = "STUN_SEND_REQUEST"
                         /\ Attr("DESTINATION_ADDRESS") =
                                <<[t |-> "DESTINATION_ADDRESS", v |-> <<addr>>]>>
                         /\ Attr("DATA") = <<[t |-> "DATA", v |-> data]>>

\* the primary entry is connected and locked to its destination while a
\* secondary entry with another destination is not connected, so that a send
\* to the secondary destination falls back onto the locked primary entry
C21_Witness ==
    /\ Len(entries) = 2
    /\ entries[1].connected /\ entries[1].locked
    /\ ~IsNil(entries[1].ext_addr)
    /\ ~entries[2].connected
    /\ ~IsNil(entries[2].ext_addr)
    /\ entries[2].ext_addr # entries[1].ext_addr

\* C22: a failure of an entry's current attempt (the message posted after
\* a socket-creation failure, a soft timeout, a socket close, an Allocate
\* timeout) emits SignalConnectFailure once, for the server of the failed
\* attempt, and a later failure of the same attempt does not emit it again
C22_FailureSignalledOnce ==
    \A e \in 1..Len(entries), ok \in BOOLEAN :
        LET ent == entries[e]
            Failures(r) ==
                SelectSeq(r.sigs, LAMBDA s : s.sig = "ConnectFailure")
            Signal(ra) == <<[sig |-> "ConnectFailure", ra |-> ra]>>
            popped == [St EXCEPT !.entries[e].msgs = Tail(@)]
            closed == OnSocketCloseBody(St, e, ent.conn.sock, ok)
        IN  /\ (/\ ent.msgs # <<>>
                /\ ent.conn = NoConn
                /\ ~Head(ent.msgs).delayed
                /\ Head(ent.msgs).att = ent.attempts) =>
                   Failures(OnMessageBody(popped, e, ok)) =
                       Signal(ServerAddress(server_addr, ent.server_index))
            /\ (ent.msgs # <<>> /\ ent.conn # NoConn) =>
                   Failures(OnMessageBody(popped, e, ok)) = Signal(ent.conn.ra)
            /\ ent.conn.fresh + ent.conn.ka > 0 =>
                   Failures(OnTimeoutBody(St, e, ent.conn.sock, ok)) =
                       Signal(ent.conn.ra)
            /\ (ent.conn # NoConn /\ IsTcp(server_addr[ent.conn.ra].proto)) =>
                   /\ Failures(closed) = Signal(ent.conn.ra)
                   /\ ent.conn.fresh + ent.conn.ka > 0 =>
                          Failures(OnTimeoutBody([closed EXCEPT !.sigs = <<>>],
                                                 e, ent.conn.sock, ok)) = <<>>

\* C23: OnResponse for a request pending on an entry's current connection
\* hands exactly one new Allocate request to that connection,
\* with delay kKeepAliveDelay, whether or not it carries a usable
\* MAPPED-ADDRESS; OnConnect runs exactly when the address is usable, and
\* otherwise the entry and the port's addresses stay as they were
C23_KeepAliveAfterEveryResponse ==
    \A e \in 1..Len(entries), pkt \in Packets :
        LET ent == entries[e]
            start == [St EXCEPT !.onConnectRan = FALSE]
            r == OnResponse(start, e, pkt)
        IN  (/\ ent.conn # NoConn
             /\ pkt.type = STUN_ALLOCATE_RESPONSE
             /\ IF pkt.txn = "fresh" THEN ent.conn.fresh > 0
                                     ELSE ent.conn.ka > 0) =>
                /\ r.allocs = <<[e |-> e, sock |-> ent.conn.sock,
                                 delay |-> kKeepAliveDelay]>>
                /\ kKeepAliveDelay = 600000
                /\ r.entries[e].conn = [ent.conn EXCEPT !.ka = @ + 1]
                /\ r.onConnectRan <=> pkt.mapped \in MappedAddrs
                /\ pkt.mapped \notin MappedAddrs =>
                       /\ r.entries[e].connected = ent.connected
                       /\ r.external_addr = external_addr
                       /\ r.ready = ready
                       /\ r.sigs = <<>>

\* an unconnected entry whose first Allocate request is pending, so that a
\* response with or without a usable address can answer it, beside a connected
\* entry whose keep-alive request is the only one pending
C23_Witness ==
    \E e, f \in 1..Len(entries) :
        /\ ~entries[e].connected /\ entries[e].conn.fresh = 1
        /\ entries[f].connected
        /\ entries[f].conn.fresh = 0 /\ entries[f].conn.ka = 1

\* C24: an entry that has started an attempt and is unconnected with a
\* server_index inside the server list is never left without a pending
\* kMessageConnectTimeout and without a pending Allocate request, the two
\* things whose delivery can connect it or fail it over
C24_NeverStranded ==
    \A e \in 1..Len(entries) :
        LET ent == entries[e]
        IN  (/\ ent.attempts >= 1
             /\ ~ent.connected
             /\ ent.server_index < Len(server_addr)) =>
                \/ ent.msgs # <<>>
                \/ ent.conn.fresh + ent.conn.ka > 0

\* C25: the ext_addr values of a port's entries are pairwise distinct, so
\* at most one entry has the nil address; entries are never removed, and an
\* entry's ext_addr changes only from nil to a destination
C25_ExtAddrDistinctStable ==
    /\ [](/\ \A i, j \in 1..Len(entries) :
                entries[i].ext_addr = entries[j].ext_addr => i = j
          /\ Cardinality({i \in 1..Len(entries) :
                              IsNil(entries[i].ext_addr)}) <= 1)
    /\ [][/\ Len(entries') >= Len(entries)
          /\ \A e \in 1..Len(entries) :
                \/ entries'[e].ext_addr = entries[e].ext_addr
                \/ IsNil(entries[e].ext_addr)]_vars

\* the primary entry has taken a destination, and a payload send to the nil
\* address has since made a secondary entry that has none
C25_Witness ==
    /\ Len(entries) = 2
    /\ ~IsNil(entries[1].ext_addr)
    /\ IsNil(entries[2].ext_addr)

\* C26: once an entry is connected it stays connected and its current
\* connection is neither replaced nor disposed: a soft-timeout message, a
\* socket close and an Allocate timeout add one to server_index and leave the
\* rest of the entry alone, Connect changes nothing, and no step starts an
\* attempt or disposes a connection on it
C26_ConnectedKeepsConnection ==
    /\ [](\A e \in 1..Len(entries), ok \in BOOLEAN :
            LET ent == entries[e]
                advanced == [ent EXCEPT !.server_index = @ + 1]
                popped == [St EXCEPT !.entries[e].msgs = Tail(@)]
            IN  ent.connected =>
                   /\ ent.conn # NoConn
                   /\ Connect(St, e, ok) = St
                   /\ OnSocketCloseBody(St, e, ent.conn.sock, ok).entries[e] =
                          advanced
                   /\ OnTimeoutBody(St, e, ent.conn.sock, ok).entries[e] =
                          advanced
                   /\ ent.msgs # <<>> =>
                          OnMessageBody(popped, e, ok).entries[e] =
                              [advanced EXCEPT !.msgs = Tail(@)])
    /\ [][\A e \in 1..Len(entries) :
             entries[e].connected =>
                /\ entries'[e].connected
                /\ entries'[e].conn.sock = entries[e].conn.sock
                /\ entries'[e].conn.ra = entries[e].conn.ra
                /\ entries'[e].attempts = entries[e].attempts
                /\ entries'[e].stale \subseteq entries[e].stale
                /\ entries'[e].server_index \in
                       {entries[e].server_index,
                        entries[e].server_index + 1}]_vars

\* a connected entry whose TCP socket has been closed: the connection is
\* still the current one and the failure has moved server_index on
C26_Witness ==
    \E e \in 1..Len(entries) :
        /\ entries[e].connected
        /\ entries[e].conn.state = "closed"
        /\ entries[e].server_index >= 1

====
